---- MODULE Spec2Model ----
(***************************************************************************)
(* Device-certificate control plane of apuntador-backend: the certificate  *)
(* registry (LOCAL file store and CLOUD DynamoDB store), the Certificate   *)
(* Authority, the DeviceService (enroll / renew / revoke) and the mTLS     *)
(* validation middleware; the OAuth broker with its signed state, the       *)
(* device attestation service with its cache, the loading of the CA        *)
(* credentials, and revocations interleaved with enrollments at the store. *)
(*                                                                         *)
(* Time is counted in whole days.  A serial is a number; the 32-digit      *)
(* upper-case hex string the code stores is its fixed-width rendering, so  *)
(* string order and equality of serials are order and equality of the      *)
(* numbers.  secrets.randbits(128) is modelled as a draw that never        *)
(* repeats an earlier draw.  The clock is sampled every second day, so a   *)
(* one-day certificate issued at one sample has expired at the next.       *)
(***************************************************************************)
EXTENDS Integers, Sequences, FiniteSets, TLC

VARIABLES repo,      \* the certificate repository (files or table)
          now,       \* the wall clock, in days
          minted,    \* serials drawn so far by _generate_serial_number
          issued,    \* history: the Certificate objects sign_csr returned
          latest,    \* history: per device, the serial sign_csr issued to it last
          revokedLog,\* history: serials of the records revoke_certificate wrote
          last,      \* the most recent request and its response
          clock,     \* the wall clock of the OAuth broker and the attestation service, in seconds
          signed,    \* the signed state the last authorize call returned, or None
          _cache,    \* DeviceAttestationService._cache: a set of [key, entry] pairs
          attempts,  \* history: per device, the verify_desktop calls made at this instant
          loader,    \* the CertificateAuthority objects, the calls loading their credentials
                     \* and the reads of the secret store so far
          pending    \* per device, the certificate a revoke_certificate call in flight has read

vars == <<repo, now, minted, issued, latest, revokedLog, last, clock, signed, _cache, attempts,
          loader, pending>>
\* the state of the certificate registry and its history
registryVars == <<repo, now, minted, issued, latest, revokedLog>>
\* the state of the OAuth broker and of the attestation service
serviceVars == <<clock, signed, _cache, attempts>>
\* the state of calls suspended at an await
coroutineVars == <<loader, pending>>

\* ---------- bounds ----------
MaxSerial == 3
MaxTime == 2

Devices == {"dev-A", "dev-B"}
Serials == 1..MaxSerial
Platforms == {"android", "ios", "desktop", "web"}
\* the platform each modelled device enrolls with
PlatformOf(d) == IF d = "dev-A" THEN "web" ELSE "android"
Providers == {"local", "aws"}
CSRs == {"valid", "unparseable", "bad_signature"}

\* Python None, and a path that does not exist
None == [none |-> TRUE]
NoFile == [exists |-> FALSE]

\* ---------- Certificate dataclass ----------
Certificate(device_id, serial, platform, issued_at, expires_at, certificate_pem, revoked) ==
    [device_id |-> device_id, serial |-> serial, platform |-> platform,
     issued_at |-> issued_at, expires_at |-> expires_at,
     certificate_pem |-> certificate_pem, revoked |-> revoked]

\* ---------- LocalCertificateRepository ----------
_cert_to_dict(cert) ==
    [device_id |-> cert.device_id, serial |-> cert.serial, platform |-> cert.platform,
     issued_at |-> cert.issued_at, expires_at |-> cert.expires_at,
     certificate_pem |-> cert.certificate_pem, revoked |-> cert.revoked]

_dict_to_cert(data) ==
    Certificate(data.device_id, data.serial, data.platform, data.issued_at,
                data.expires_at, data.certificate_pem, data.revoked)

Local_save_certificate(r, certificate) ==
    [r EXCEPT !.certs_dir[certificate.device_id] = _cert_to_dict(certificate),
              !.serials_dir[certificate.serial] = [device_id |-> certificate.device_id]]

Local_get_certificate(r, device_id) ==
    IF r.certs_dir[device_id] = NoFile THEN None
    ELSE _dict_to_cert(r.certs_dir[device_id])

Local_is_serial_whitelisted(r, serial, t) ==
    IF serial \notin DOMAIN r.serials_dir \/ r.serials_dir[serial] = NoFile THEN FALSE
    ELSE LET cert == Local_get_certificate(r, r.serials_dir[serial].device_id)
         IN  IF cert = None THEN FALSE
             ELSE IF cert.revoked THEN FALSE
             ELSE IF cert.expires_at < t THEN FALSE
             ELSE TRUE

Local_revoke_certificate(r, device_id) ==
    LET cert == Local_get_certificate(r, device_id)
    IN  IF cert = None THEN [repo |-> r, ret |-> "False", wrote |-> {}]
        ELSE [repo |-> Local_save_certificate(r, [cert EXCEPT !.revoked = TRUE]),
              ret |-> "True", wrote |-> {cert.serial}]

Local_list_all_certificates(r) ==
    {_dict_to_cert(r.certs_dir[d]) : d \in {x \in Devices : r.certs_dir[x] # NoFile}}

\* ---------- AWSCertificateRepository ----------
_model_to_certificate(model) ==
    Certificate(model.device_id, model.serial_number, model.platform, model.issued_at,
                model.expires_at, model.certificate_pem, model.revoked)

\* CertificateModel.save(): put_item, replacing the item with the same primary key
PutItem(table, item) ==
    {m \in table : ~(m.device_id = item.device_id /\ m.serial_number = item.serial_number)}
        \cup {item}

AWS_save_certificate(r, certificate) ==
    [r EXCEPT !.table = PutItem(@,
        [device_id |-> certificate.device_id, serial_number |-> certificate.serial,
         platform |-> certificate.platform, issued_at |-> certificate.issued_at,
         expires_at |-> certificate.expires_at,
         certificate_pem |-> certificate.certificate_pem,
         revoked |-> certificate.revoked,
         revoked_at |-> None, revocation_reason |-> None])]

\* query(hash_key, scan_index_forward=False, limit=1): greatest range key first
AWS_get_certificate(r, device_id) ==
    LET results == {m \in r.table : m.device_id = device_id}
    IN  IF results = {} THEN None
        ELSE _model_to_certificate(
                CHOOSE m \in results : \A o \in results : o.serial_number <= m.serial_number)

\* serial_index.query(hash_key=serial, limit=1)
AWS_get_certificate_by_serial(r, serial) ==
    LET results == {m \in r.table : m.serial_number = serial}
    IN  IF results = {} THEN None
        ELSE _model_to_certificate(CHOOSE m \in results : TRUE)

AWS_is_serial_whitelisted(r, serial, t) ==
    LET cert == AWS_get_certificate_by_serial(r, serial)
    IN  cert # None /\ ~cert.revoked

\* returns None on every path; ret is the Python value returned ("True", "False", "None")
AWS_revoke_certificate(r, device_id, reason, t) ==
    LET cert == AWS_get_certificate(r, device_id)
    IN  IF cert = None THEN [repo |-> r, ret |-> "None", wrote |-> {}]
        ELSE LET cert_model == CHOOSE m \in r.table :
                                 m.device_id = device_id /\ m.serial_number = cert.serial
             IN  [repo |-> [r EXCEPT !.table = PutItem(@,
                                [cert_model EXCEPT !.revoked = TRUE,
                                                   !.revoked_at = t,
                                                   !.revocation_reason =
                                                       IF reason = None
                                                       THEN "Manual revocation"
                                                       ELSE reason])],
                  ret |-> "None", wrote |-> {cert.serial}]

AWS_list_all_certificates(r) == {_model_to_certificate(m) : m \in r.table}

\* ---------- CertificateRepository, as the factory hands it out ----------
save_certificate(r, certificate) ==
    IF r.provider = "local" THEN Local_save_certificate(r, certificate)
    ELSE AWS_save_certificate(r, certificate)

get_certificate(r, device_id) ==
    IF r.provider = "local" THEN Local_get_certificate(r, device_id)
    ELSE AWS_get_certificate(r, device_id)

is_serial_whitelisted(r, serial, t) ==
    IF r.provider = "local" THEN Local_is_serial_whitelisted(r, serial, t)
    ELSE AWS_is_serial_whitelisted(r, serial, t)

\* CertificateAuthority.revoke_certificate(device_id) -> cert_repo.revoke_certificate(device_id)
revoke_certificate(r, device_id, t) ==
    IF r.provider = "local" THEN Local_revoke_certificate(r, device_id)
    ELSE AWS_revoke_certificate(r, device_id, None, t)

list_all_certificates(r) ==
    IF r.provider = "local" THEN Local_list_all_certificates(r)
    ELSE AWS_list_all_certificates(r)

\* ---------- CertificateAuthority ----------
\* a generator that may return a serial it returned before
_generate_serial_number_repeating(drawn) == Serials
\* secrets.randbits(128): the serials a call may return, given those drawn so far
_generate_serial_number(drawn) == Serials \ drawn

\* str.lower() on the platform names that occur
lower(platform) == IF platform = "Web" THEN "web" ELSE platform

\* a validity map without the short web lifetime
_get_validity_days_no_web(platform) ==
    CASE lower(platform) = "android" -> 30
      [] lower(platform) = "ios" -> 30
      [] lower(platform) = "desktop" -> 7
      [] OTHER -> 7
_get_validity_days(platform) ==
    CASE lower(platform) = "android" -> 30
      [] lower(platform) = "ios" -> 30
      [] lower(platform) = "desktop" -> 7
      [] lower(platform) = "web" -> 1
      [] OTHER -> 7

\* the X.509 certificate the builder signs, as the fields the middleware reads back
X509(device_id, serial, not_before, not_after) ==
    [cn |-> device_id, serial_number |-> serial,
     not_valid_before |-> not_before, not_valid_after |-> not_after]

\* x509.load_pem_x509_csr and csr.is_signature_valid: the error sign_csr raises, if any
csr_error(csr_pem) ==
    IF csr_pem = "unparseable" THEN "Invalid CSR format"
    ELSE IF csr_pem = "bad_signature" THEN "CSR signature is invalid"
    ELSE "none"

\* sign_csr past the CSR checks; serial is the value _generate_serial_number
\* returned, t the clock reading
sign_csr(r, device_id, platform, serial, t) ==
    LET validity_days == _get_validity_days(platform)
        not_before == t
        not_after == t + validity_days
        cert_obj == Certificate(device_id, serial, platform, not_before, not_after,
                                X509(device_id, serial, not_before, not_after), FALSE)
    IN  [cert |-> cert_obj, repo |-> save_certificate(r, cert_obj)]

\* ---------- CertificateAuthority._load_ca_credentials ----------
\* get_certificate_authority builds a CertificateAuthority for every request that asks
\* for one; a CertificateAuthority may also be kept and called again.  Each sign_csr or
\* verify_certificate call first runs _load_ca_credentials on its object, and is
\* suspended at each read of the secret store.
Instances == {"ca-1", "ca-2"}
Calls == {"call-1", "call-2", "call-3"}
NoCalls ==
    [_ca_private_key |-> [i \in Instances |-> None],
     _ca_certificate |-> [i \in Instances |-> None],
     built |-> {},
     self |-> [c \in Calls |-> None],
     pc |-> [c \in Calls |-> "idle"],
     key_reads |-> 0,
     cert_reads |-> 0]

\* get_certificate_authority: a new object, both fields None
get_certificate_authority(i) ==
    [loader EXCEPT !.built = @ \cup {i},
                   !._ca_private_key[i] = None,
                   !._ca_certificate[i] = None]

\* "if self._ca_certificate is None": the read is started or the load is over
check_certificate(l, c) ==
    IF l._ca_certificate[l.self[c].value] = None
    THEN [l EXCEPT !.pc[c] = "get_ca_certificate"]
    ELSE [l EXCEPT !.pc[c] = "loaded"]

\* a request obtains its CertificateAuthority from get_certificate_authority and calls
\* sign_csr or verify_certificate: up to "if self._ca_private_key is None"
CallOnNew(c, i) ==
    /\ loader.pc[c] = "idle"
    /\ i \notin loader.built
    /\ LET l == [get_certificate_authority(i) EXCEPT !.self[c] = [value |-> i]]
       IN  loader' = [l EXCEPT !.pc[c] = "get_ca_private_key"]
    /\ last' = [op |-> "load", call |-> c]
    /\ UNCHANGED <<registryVars, serviceVars, pending>>

\* sign_csr or verify_certificate called on an object built before
CallOnKept(c, i) ==
    /\ loader.pc[c] = "idle"
    /\ i \in loader.built
    /\ LET l == [loader EXCEPT !.self[c] = [value |-> i]]
       IN  loader' = IF l._ca_private_key[i] = None
                     THEN [l EXCEPT !.pc[c] = "get_ca_private_key"]
                     ELSE check_certificate(l, c)
    /\ last' = [op |-> "load", call |-> c]
    /\ UNCHANGED <<registryVars, serviceVars, pending>>

\* secrets_repo.get_ca_private_key() returns and the key is stored in the object
GetCaPrivateKey(c) ==
    /\ loader.pc[c] = "get_ca_private_key"
    /\ LET i == loader.self[c].value
           l == [loader EXCEPT !.key_reads = @ + 1,
                               !._ca_private_key[i] = [value |-> "ca_key"]]
       IN  loader' = check_certificate(l, c)
    /\ last' = [op |-> "get_ca_private_key", call |-> c]
    /\ UNCHANGED <<registryVars, serviceVars, pending>>

\* secrets_repo.get_ca_certificate() returns and the certificate is stored in the object
GetCaCertificate(c) ==
    /\ loader.pc[c] = "get_ca_certificate"
    /\ LET i == loader.self[c].value
       IN  loader' = [loader EXCEPT !.cert_reads = @ + 1,
                                    !._ca_certificate[i] = [value |-> "ca_cert"],
                                    !.pc[c] = "loaded"]
    /\ last' = [op |-> "get_ca_certificate", call |-> c]
    /\ UNCHANGED <<registryVars, serviceVars, pending>>

CallOnNewAny == \E c \in Calls, i \in Instances : CallOnNew(c, i)
CallOnKeptAny == \E c \in Calls, i \in Instances : CallOnKept(c, i)
GetCaPrivateKeyAny == \E c \in Calls : GetCaPrivateKey(c)
GetCaCertificateAny == \E c \in Calls : GetCaCertificate(c)

NextLoad == CallOnNewAny \/ CallOnKeptAny \/ GetCaPrivateKeyAny \/ GetCaCertificateAny

\* ---------- initial state ----------
EmptyRepo(provider) ==
    [provider |-> provider,
     certs_dir |-> [d \in Devices |-> NoFile],
     serials_dir |-> [s \in Serials |-> NoFile],
     table |-> {}]

Init ==
    /\ repo \in {EmptyRepo(p) : p \in Providers}
    /\ now = 0
    /\ minted = {}
    /\ issued = {}
    /\ latest = [d \in Devices |-> {}]
    /\ revokedLog = {}
    /\ last = [op |-> "start"]
    /\ clock = 0
    /\ signed = None
    /\ _cache = {}
    /\ attempts = [d \in Devices |-> 0]
    /\ loader = NoCalls
    /\ pending = [d \in Devices |-> None]

\* ---------- DeviceService ----------
\* the request's attestation field is None or an attestation token; the handler does
\* not read it
\* an enrollment whose CA draws the serial before it looks at the CSR
enroll_device_mint_first(device_id, platform, csr, attestation) ==
    \E serial \in _generate_serial_number(minted) :
        IF csr_error(csr) # "none"
        THEN /\ last' = [op |-> "enroll", device_id |-> device_id, status |-> "INVALID_CSR",
                         attestation |-> attestation]
             /\ minted' = minted \cup {serial}
             /\ UNCHANGED <<repo, now, issued, latest, revokedLog>>
        ELSE LET res == sign_csr(repo, device_id, platform, serial, now)
             IN  /\ repo' = res.repo
                 /\ minted' = minted \cup {serial}
                 /\ issued' = issued \cup {res.cert}
                 /\ latest' = [latest EXCEPT ![device_id] = {res.cert.serial}]
                 /\ last' = [op |-> "enroll", device_id |-> device_id, status |-> "ok",
                             serial |-> res.cert.serial, attestation |-> attestation]
                 /\ UNCHANGED <<now, revokedLog>>
enroll_device(device_id, platform, csr, attestation) ==
    IF csr_error(csr) # "none"
    THEN /\ last' = [op |-> "enroll", device_id |-> device_id, status |-> "INVALID_CSR",
                     attestation |-> attestation]
         /\ UNCHANGED <<repo, now, minted, issued, latest, revokedLog>>
    ELSE \E serial \in _generate_serial_number(minted) :
            LET res == sign_csr(repo, device_id, platform, serial, now)
            IN  /\ repo' = res.repo
                /\ minted' = minted \cup {serial}
                /\ issued' = issued \cup {res.cert}
                /\ latest' = [latest EXCEPT ![device_id] = {res.cert.serial}]
                /\ last' = [op |-> "enroll", device_id |-> device_id, status |-> "ok",
                            serial |-> res.cert.serial, attestation |-> attestation]
                /\ UNCHANGED <<now, revokedLog>>

renew_certificate(device_id, old_serial, csr) ==
    LET old_cert == get_certificate(repo, device_id)
    IN  IF old_cert = None
        THEN /\ last' = [op |-> "renew", device_id |-> device_id, status |-> "NOT_FOUND",
                         old_serial |-> old_serial]
             /\ UNCHANGED <<repo, now, minted, issued, latest, revokedLog>>
        ELSE IF old_cert.serial # old_serial
        THEN /\ last' = [op |-> "renew", device_id |-> device_id,
                         status |-> "SERIAL_MISMATCH", old_serial |-> old_serial]
             /\ UNCHANGED <<repo, now, minted, issued, latest, revokedLog>>
        ELSE IF csr_error(csr) # "none"
        THEN /\ last' = [op |-> "renew", device_id |-> device_id,
                         status |-> "INVALID_CSR", old_serial |-> old_serial]
             /\ UNCHANGED <<repo, now, minted, issued, latest, revokedLog>>
        ELSE \E serial \in _generate_serial_number(minted) :
                LET res == sign_csr(repo, device_id, old_cert.platform, serial, now)
                    rev == revoke_certificate(res.repo, device_id, now)
                IN  /\ repo' = rev.repo
                    /\ minted' = minted \cup {serial}
                    /\ issued' = issued \cup {res.cert}
                    /\ latest' = [latest EXCEPT ![device_id] = {res.cert.serial}]
                    /\ revokedLog' = revokedLog \cup rev.wrote
                    /\ last' = [op |-> "renew", device_id |-> device_id,
                                status |-> "ok", serial |-> res.cert.serial,
                                old_serial |-> old_serial]
                    /\ UNCHANGED now

\* DeviceService.revoke_certificate: success is the truth value of what the CA returned
Revoke(device_id) ==
    LET rev == revoke_certificate(repo, device_id, now)
    IN  /\ repo' = rev.repo
        /\ revokedLog' = revokedLog \cup rev.wrote
        /\ last' = [op |-> "revoke", device_id |-> device_id,
                    success |-> (rev.ret = "True")]
        /\ UNCHANGED <<now, minted, issued, latest>>

Tick ==
    /\ now + 2 <= MaxTime
    /\ now' = now + 2
    /\ last' = [op |-> "tick"]
    /\ UNCHANGED <<repo, minted, issued, latest, revokedLog>>
    /\ UNCHANGED <<serviceVars, coroutineVars>>

Enroll ==
    /\ \E d \in Devices, csr \in CSRs : enroll_device(d, PlatformOf(d), csr, None)
    /\ UNCHANGED <<serviceVars, coroutineVars>>
Renew ==
    /\ \E d \in Devices, s \in Serials, csr \in CSRs : renew_certificate(d, s, csr)
    /\ UNCHANGED <<serviceVars, coroutineVars>>
RevokeAny ==
    /\ \E d \in Devices : Revoke(d)
    /\ UNCHANGED <<serviceVars, coroutineVars>>

Next == Enroll \/ Renew \/ RevokeAny \/ Tick

Spec == Init /\ [][Next]_vars

\* the service when devices only enroll and are revoked (no renewals)
NextEnroll == Enroll \/ RevokeAny \/ Tick

SpecEnroll == Init /\ [][NextEnroll]_vars

\* the service when devices only enroll and renew (no revocation requests, one instant)
NextIssue == Enroll \/ Renew

SpecIssue == Init /\ [][NextIssue]_vars

\* ---------- MTLSValidationMiddleware ----------
\* A URL path is the sequence of its segments: "/" is <<"">>, "/health/public" is
\* <<"health", "public">>, "/oauth/" is <<"oauth", "">>.
exempt_paths == {<<"">>, <<"health">>, <<"health", "public">>, <<"docs">>, <<"redoc">>,
                 <<"openapi.json">>}
exempt_prefixes == {"oauth", "config"}
exempt_exact == {<<"device", "enroll">>, <<"device", "ca-certificate">>}

\* path.startswith("/" + prefix + "/")
startswith(path, prefix) == Len(path) >= 2 /\ path[1] = prefix

_is_exempt_path(path) ==
    IF path \in exempt_paths \/ path \in exempt_exact THEN TRUE
    ELSE IF \E prefix \in exempt_prefixes : startswith(path, prefix) THEN TRUE
    ELSE FALSE

\* Header values.  A missing header is Absent.  X-Client-Cert / X-SSL-Client-Cert
\* carry "" (empty), a PEM (pem), a PEM with %0A for the newlines (urlencoded), the
\* base64 body without the PEM markers (bare) or text that is no certificate
\* (junk).  X-Forwarded-Client-Cert carries "" (empty), pairs without a Cert="..."
\* field (no_cert_field), Cert="<base64 DER>" (cert_b64der) or Cert="<junk>"
\* (cert_junk).
Absent == [present |-> FALSE]
HeaderValue(form, cert) == [present |-> TRUE, form |-> form, cert |-> cert]
PemText(cert) == [text |-> "pem", cert |-> cert]
JunkText == [text |-> "junk"]

\* one iteration of the loop over x-client-cert, x-ssl-client-cert: the PEM text it
\* returns, or None when the header is missing or empty
direct_header(h) ==
    IF ~h.present \/ h.form = "empty" THEN None
    ELSE LET decoded == IF h.form = "urlencoded" THEN "pem" ELSE h.form
         IN  IF decoded = "pem" THEN PemText(h.cert)
             ELSE IF decoded = "bare" THEN PemText(h.cert)
             ELSE JunkText

_extract_certificate(headers) ==
    IF direct_header(headers.x_client_cert) # None
    THEN direct_header(headers.x_client_cert)
    ELSE IF direct_header(headers.x_ssl_client_cert) # None
    THEN direct_header(headers.x_ssl_client_cert)
    ELSE LET xfcc_header == headers.x_forwarded_client_cert
         IN  IF xfcc_header.present /\ xfcc_header.form # "empty"
             THEN IF xfcc_header.form = "no_cert_field" THEN None
                  ELSE IF xfcc_header.form = "cert_b64der" THEN PemText(xfcc_header.cert)
                  ELSE None
             ELSE None

\* a validation that does not compare the clock with not_valid_after
_validate_certificate_no_expiry(r, cert_pem, t) ==
    IF cert_pem.text # "pem"
    THEN [valid |-> FALSE, reason |-> "Certificate validation failed"]
    ELSE LET cert == cert_pem.cert
             serial == cert.serial_number
         IN  IF ~is_serial_whitelisted(r, serial, t)
             THEN [valid |-> FALSE, reason |-> "not whitelisted"]
             ELSE LET found == {c \in list_all_certificates(r) : c.serial = serial}
                  IN  IF found = {}
                      THEN [valid |-> FALSE, reason |-> "not found in repository"]
                      ELSE LET stored_cert == CHOOSE c \in found : TRUE
                           IN  IF t < cert.not_valid_before
                               THEN [valid |-> FALSE, reason |-> "Certificate not yet valid"]
                               ELSE IF stored_cert.revoked
                               THEN [valid |-> FALSE,
                                     reason |-> "Certificate has been revoked"]
                               ELSE [valid |-> TRUE, device_id |-> stored_cert.device_id,
                                     serial |-> serial, platform |-> stored_cert.platform]
\* parse, whitelist, registry record, lifetime, revocation, in the code's order
_validate_certificate(r, cert_pem, t) ==
    IF cert_pem.text # "pem"
    THEN [valid |-> FALSE, reason |-> "Certificate validation failed"]
    ELSE LET cert == cert_pem.cert
             serial == cert.serial_number
         IN  IF ~is_serial_whitelisted(r, serial, t)
             THEN [valid |-> FALSE, reason |-> "not whitelisted"]
             ELSE LET found == {c \in list_all_certificates(r) : c.serial = serial}
                  IN  IF found = {}
                      THEN [valid |-> FALSE, reason |-> "not found in repository"]
                      ELSE LET stored_cert == CHOOSE c \in found : TRUE
                           IN  IF t < cert.not_valid_before
                               THEN [valid |-> FALSE, reason |-> "Certificate not yet valid"]
                               ELSE IF t > cert.not_valid_after
                               THEN [valid |-> FALSE, reason |-> "Certificate has expired"]
                               ELSE IF stored_cert.revoked
                               THEN [valid |-> FALSE,
                                     reason |-> "Certificate has been revoked"]
                               ELSE [valid |-> TRUE, device_id |-> stored_cert.device_id,
                                     serial |-> serial, platform |-> stored_cert.platform]

\* the response of dispatch and whether call_next (the handler) ran
dispatch(r, request, t) ==
    IF _is_exempt_path(request.path)
    THEN [status |-> "call_next", handler |-> TRUE]
    ELSE LET cert_pem == _extract_certificate(request.headers)
         IN  IF cert_pem = None THEN [status |-> "401", handler |-> FALSE]
             ELSE LET validation_result == _validate_certificate(r, cert_pem, t)
                  IN  IF ~validation_result.valid
                      THEN [status |-> "403", handler |-> FALSE,
                            reason |-> validation_result.reason]
                      ELSE [status |-> "call_next", handler |-> TRUE,
                            device_id |-> validation_result.device_id,
                            certificate_serial |-> validation_result.serial]

Dispatch(request) ==
    /\ last' = [op |-> "dispatch", request |-> request,
                response |-> dispatch(repo, request, now)]
    /\ UNCHANGED <<repo, now, minted, issued, latest, revokedLog>>
    /\ UNCHANGED <<serviceVars, coroutineVars>>

NoHeaders == [x_client_cert |-> Absent, x_ssl_client_cert |-> Absent,
              x_forwarded_client_cert |-> Absent]
ProtectedPath == <<"device", "renew">>

\* certificates a client may present: the ones the CA issued, and self-made ones
\* (the middleware does not verify the signature) with any serial and a lifetime
\* that is over, not begun, or exactly the present day
PresentedCerts ==
    {c.certificate_pem : c \in issued}
        \cup {X509("forged", s, now + k, now + k) :
                    s \in UNION {latest[d] : d \in Devices}, k \in {-1, 0, 1}}

\* requests to the running service
GatewayRequests ==
    {[path |-> <<"health">>, headers |-> NoHeaders],
     [path |-> ProtectedPath, headers |-> NoHeaders],
     [path |-> ProtectedPath,
      headers |-> [NoHeaders EXCEPT !.x_client_cert = HeaderValue("junk", None)]]}
        \cup {[path |-> ProtectedPath,
               headers |-> [NoHeaders EXCEPT !.x_client_cert = HeaderValue("pem", c)]] :
                    c \in PresentedCerts}

DispatchAny == \E request \in GatewayRequests : Dispatch(request)

NextGateway == Enroll \/ Renew \/ RevokeAny \/ Tick \/ DispatchAny

SpecGateway == Init /\ [][NextGateway]_vars

\* ---------- the middleware on every path and header shape, empty registry ----------
MaxPathLen == 2
Segments == {"", "health", "public", "docs", "redoc", "openapi.json", "device", "enroll",
             "ca-certificate", "ca-certificate-pin", "renew", "status", "oauth", "config",
             "api"}
Paths == UNION {[1..n -> Segments] : n \in 1..MaxPathLen}

SampleCert == X509("dev-A", 1, 0, 1)
DirectValues == {Absent} \cup {HeaderValue(f, None) : f \in {"empty", "junk"}}
                    \cup {HeaderValue(f, SampleCert) : f \in {"pem", "urlencoded", "bare"}}
XfccValues == {Absent} \cup {HeaderValue(f, None) : f \in {"empty", "no_cert_field", "cert_junk"}}
                    \cup {HeaderValue("cert_b64der", SampleCert)}
HeaderSets == [x_client_cert : DirectValues, x_ssl_client_cert : DirectValues,
               x_forwarded_client_cert : XfccValues]

InitRequests ==
    /\ repo \in {EmptyRepo(p) : p \in Providers}
    /\ now = 0
    /\ minted = {}
    /\ issued = {}
    /\ latest = [d \in Devices |-> {}]
    /\ revokedLog = {}
    /\ last = [op |-> "start"]
    /\ clock = 0
    /\ signed = None
    /\ _cache = {}
    /\ attempts = [d \in Devices |-> 0]
    /\ loader = NoCalls
    /\ pending = [d \in Devices |-> None]

DispatchPath == \E path \in Paths : Dispatch([path |-> path, headers |-> NoHeaders])
DispatchHeaders == \E h \in HeaderSets : Dispatch([path |-> ProtectedPath, headers |-> h])

NextRequests == DispatchPath \/ DispatchHeaders

SpecRequests == InitRequests /\ [][NextRequests]_vars

\* ---------- signed state (utils/security.py over itsdangerous) ----------
secret_key == "dev-secret-key-change-in-production-min-32-chars"
default_max_age == 600

\* the serializer's JSON text of a dict: its key/value pairs
json_dumps(data) == {<<k, data[k]>> : k \in DOMAIN data}
json_loads(text) == [k \in {pair[1] : pair \in text} |->
                        (CHOOSE pair \in text : pair[1] = k)[2]]

\* the HMAC of payload and timestamp under a key
signature(key, payload, timestamp) ==
    [key |-> key, payload |-> payload, timestamp |-> timestamp]

\* serializer.dumps(data) at time t; the max_age argument of sign_data is not used
sign_data(data, t) ==
    [payload |-> json_dumps(data), timestamp |-> t,
     sig |-> signature(secret_key, json_dumps(data), t)]

\* a verification that does not compare the token's age with max_age
verify_signed_data_ageless(token, max_age, t) ==
    IF token.sig # signature(secret_key, token.payload, token.timestamp)
    THEN None
    ELSE json_loads(token.payload)
\* serializer.loads(token, max_age): BadSignature and SignatureExpired give None
verify_signed_data(token, max_age, t) ==
    IF token.sig # signature(secret_key, token.payload, token.timestamp)
    THEN None
    ELSE IF t - token.timestamp > max_age \/ t - token.timestamp < 0
    THEN None
    ELSE json_loads(token.payload)

\* ---------- OAuth broker ----------
OAuthProviders == {"googledrive", "dropbox"}
CodeVerifiers == {"verifier-1", "verifier-2"}
RedirectUris == {"apuntador://cb", "otherapp://cb"}
google_redirect_uri == "https://apuntador.ngrok.app/api/oauth/callback/googledrive"
dropbox_redirect_uri == "https://apuntador.ngrok.app/api/oauth/callback/dropbox"

\* the provider service get_oauth_service builds (credentials are configured), or
\* None for an unsupported provider (ValueError)
get_oauth_service(provider, redirect_uri) ==
    IF provider = "googledrive"
    THEN [provider |-> "googledrive", redirect_uri |-> google_redirect_uri]
    ELSE IF provider = "dropbox"
    THEN [provider |-> "dropbox",
          redirect_uri |-> IF redirect_uri # None THEN redirect_uri.value
                           ELSE dropbox_redirect_uri]
    ELSE None

\* an optional string: None, or Some(value)
Some(value) == [value |-> value]

\* OAuthService.create_authorization: the signed state it returns
create_authorization(provider, code_verifier, redirect_uri, t) ==
    sign_data([state |-> "client-state", code_verifier |-> code_verifier,
               provider |-> provider, redirect_uri |-> redirect_uri], t)

\* dict.get(key, default)
dict_get(data, key, default) == IF key \in DOMAIN data THEN Some(data[key]) ELSE default

\* a callback that does not compare the state's provider with its own
oauth_callback_any_provider(provider, code, state, t) ==
    LET state_data == verify_signed_data(state, default_max_age, t)
    IN  IF state_data = None \/ DOMAIN state_data = {}
        THEN [status_code |-> 307, url |-> "apuntador://oauth-callback",
              query |-> [error |-> "invalid_state", provider |-> provider]]
        ELSE [status_code |-> 302,
              url |-> dict_get(state_data, "redirect_uri",
                               Some("apuntador://oauth-callback")).value,
              query |-> [code |-> code, state |-> state, provider |-> provider]]
\* oauth_callback: the redirect it answers with
oauth_callback(provider, code, state, t) ==
    LET state_data == verify_signed_data(state, default_max_age, t)
    IN  IF state_data = None \/ DOMAIN state_data = {}
        THEN [status_code |-> 307, url |-> "apuntador://oauth-callback",
              query |-> [error |-> "invalid_state", provider |-> provider]]
        ELSE IF dict_get(state_data, "provider", None) # Some(provider)
        THEN [status_code |-> 307,
              url |-> dict_get(state_data, "redirect_uri",
                               Some("apuntador://oauth-callback")).value,
              query |-> [error |-> "provider_mismatch", provider |-> provider]]
        ELSE [status_code |-> 302,
              url |-> dict_get(state_data, "redirect_uri",
                               Some("apuntador://oauth-callback")).value,
              query |-> [code |-> code, state |-> state, provider |-> provider]]

\* OAuthService.exchange_code_for_tokens: the error it raises, or the call it makes
\* to the provider's token endpoint.  state is None when the request carries none.
exchange_code_for_tokens(provider, code, code_verifier, state, t) ==
    LET state_data == IF state = None THEN None
                      ELSE verify_signed_data(state, default_max_age, t)
        redirect_uri == IF state = None THEN None
                        ELSE dict_get(state_data, "redirect_uri", None)
        service == get_oauth_service(provider, redirect_uri)
    IN  IF state # None /\ (state_data = None \/ DOMAIN state_data = {})
        THEN [error |-> "Invalid state", upstream |-> None]
        ELSE IF state # None
                /\ dict_get(state_data, "code_verifier", None) # Some(code_verifier)
        THEN [error |-> "Code verifier mismatch", upstream |-> None]
        ELSE IF service = None
        THEN [error |-> "Unsupported OAuth provider", upstream |-> None]
        ELSE [error |-> "none",
              upstream |-> [provider |-> service.provider, code |-> code,
                            code_verifier |-> code_verifier,
                            redirect_uri |-> service.redirect_uri]]

\* instants at which the broker's clock is observed
OAuthInstants == {0, 1, default_max_age, default_max_age + 1}

\* states a client may send: the one the broker signed, that one with a changed
\* payload field or timestamp under the old signature, and one signed with another key
Tampered(token) ==
    {[token EXCEPT !.payload = json_dumps([json_loads(token.payload)
                                                    EXCEPT !["provider"] = v])] :
            v \in OAuthProviders}
      \cup {[token EXCEPT !.payload = json_dumps([json_loads(token.payload)
                                                    EXCEPT !["code_verifier"] = v])] :
            v \in CodeVerifiers}
      \cup {[token EXCEPT !.payload = json_dumps([json_loads(token.payload)
                                                    EXCEPT !["redirect_uri"] = v])] :
            v \in RedirectUris}
      \cup {[token EXCEPT !.timestamp = ts] : ts \in OAuthInstants}
      \cup {[token EXCEPT !.sig = signature("another-key", token.payload, token.timestamp)]}
PresentedStates == IF signed = None THEN {} ELSE {signed} \cup Tampered(signed)

Authorize(provider, code_verifier, redirect_uri) ==
    /\ signed' = create_authorization(provider, code_verifier, redirect_uri, clock)
    /\ last' = [op |-> "authorize", provider |-> provider]
    /\ UNCHANGED <<clock, _cache, attempts>>
    /\ UNCHANGED <<registryVars, coroutineVars>>

Callback(provider, code, state) ==
    /\ last' = [op |-> "callback", provider |-> provider, code |-> code, state |-> state,
                response |-> oauth_callback(provider, code, state, clock)]
    /\ UNCHANGED <<serviceVars, coroutineVars>>
    /\ UNCHANGED <<registryVars, coroutineVars>>

Exchange(provider, code, code_verifier, state) ==
    /\ last' = [op |-> "exchange", provider |-> provider, code |-> code,
                code_verifier |-> code_verifier, state |-> state,
                response |-> exchange_code_for_tokens(provider, code, code_verifier,
                                                      state, clock)]
    /\ UNCHANGED <<serviceVars, coroutineVars>>
    /\ UNCHANGED <<registryVars, coroutineVars>>

VerifyState(token, max_age) ==
    /\ last' = [op |-> "verify", token |-> token, max_age |-> max_age,
                result |-> verify_signed_data(token, max_age, clock)]
    /\ UNCHANGED <<serviceVars, coroutineVars>>
    /\ UNCHANGED <<registryVars, coroutineVars>>

OAuthTick ==
    /\ \E t \in OAuthInstants : t > clock /\ clock' = t
    /\ last' = [op |-> "tick"]
    /\ UNCHANGED <<signed, _cache, attempts>>
    /\ UNCHANGED <<registryVars, coroutineVars>>

MaxAges == {1, default_max_age}
AuthorizeAny ==
    \E provider \in OAuthProviders, code_verifier \in CodeVerifiers,
       redirect_uri \in RedirectUris : Authorize(provider, code_verifier, redirect_uri)
CallbackAny ==
    \E provider \in OAuthProviders, state \in PresentedStates :
        Callback(provider, "code-1", state)
ExchangeAny ==
    \E provider \in OAuthProviders \cup {"onedrive"}, code_verifier \in CodeVerifiers,
       state \in PresentedStates \cup {None} :
        Exchange(provider, "code-1", code_verifier, state)
VerifyAny == \E token \in PresentedStates, max_age \in MaxAges : VerifyState(token, max_age)

\* the broker and the attestation service right after start, the registry empty
InitServices ==
    /\ repo = EmptyRepo("local")
    /\ now = 0
    /\ minted = {}
    /\ issued = {}
    /\ latest = [d \in Devices |-> {}]
    /\ revokedLog = {}
    /\ last = [op |-> "start"]
    /\ clock = 0
    /\ signed = None
    /\ _cache = {}
    /\ attempts = [d \in Devices |-> 0]
    /\ loader = NoCalls
    /\ pending = [d \in Devices |-> None]

NextOAuth == AuthorizeAny \/ CallbackAny \/ ExchangeAny \/ VerifyAny \/ OAuthTick

SpecOAuth == InitServices /\ [][NextOAuth]_vars

\* ---------- DeviceAttestationService ----------
cache_ttl_seconds == 3600
MaxAttempts == 6

\* the key f"{device_id}:{platform.value}"
cache_key(device_id, platform) == <<device_id, platform>>

\* dict.get on the cache
cache_get(cache, key) ==
    IF \E pair \in cache : pair.key = key
    THEN (CHOOSE pair \in cache : pair.key = key).entry
    ELSE None

\* AttestationCacheEntry.is_expired
is_expired(entry, t) == t > entry.expires_at

\* a lookup that also drops an entry at the instant it expires
_get_cached_attestation_early(cache, device_id, platform, t) ==
    LET key == cache_key(device_id, platform)
        entry == cache_get(cache, key)
    IN  IF entry # None /\ t < entry.expires_at
        THEN [entry |-> entry, cache |-> cache]
        ELSE [entry |-> None, cache |-> {pair \in cache : pair.key # key}]
\* the entry under the key if it has not expired; an expired entry is removed
_get_cached_attestation(cache, device_id, platform, t) ==
    LET key == cache_key(device_id, platform)
        entry == cache_get(cache, key)
    IN  IF entry # None /\ ~is_expired(entry, t)
        THEN [entry |-> entry, cache |-> cache]
        ELSE [entry |-> None, cache |-> {pair \in cache : pair.key # key}]

_cache_attestation(cache, device_id, platform, status, details, t) ==
    LET key == cache_key(device_id, platform)
        entry == [device_id |-> device_id, platform |-> platform, status |-> status,
                  timestamp |-> t, expires_at |-> t + cache_ttl_seconds,
                  details |-> details]
    IN  {pair \in cache : pair.key # key} \cup {[key |-> key, entry |-> entry]}

\* the placeholder: always within the limit
_check_rate_limit(device_id) == TRUE

\* A JWS token is malformed (not three parts), has a payload that is not base64 JSON
\* (undecodable), or has a decodable payload with nonce, ctsProfileMatch and
\* basicIntegrity.  Its signature is not looked at.
JwsPayload(nonce, cts, basic) ==
    [form |-> "jws", nonce |-> nonce, ctsProfileMatch |-> cts, basicIntegrity |-> basic]
JwsMalformed == [form |-> "malformed"]
JwsUndecodable == [form |-> "undecodable"]

\* each verify operator returns the response and the cache it leaves
verify_safetynet(cache, request, t) ==
    LET looked == _get_cached_attestation(cache, request.device_id, "android", t)
        cached == looked.entry
        payload == request.jws_token
    IN  IF cached # None
        THEN [response |-> [status |-> cached.status, device_id |-> cached.device_id,
                            timestamp |-> cached.timestamp, error_message |-> "None"],
              cache |-> looked.cache]
        ELSE IF payload.form = "malformed"
        THEN [response |-> [status |-> "failed", device_id |-> request.device_id,
                            timestamp |-> t, error_message |-> "Invalid JWS token format"],
              cache |-> looked.cache]
        ELSE IF payload.form = "undecodable"
        THEN [response |-> [status |-> "failed", device_id |-> request.device_id,
                            timestamp |-> t, error_message |-> "decode error"],
              cache |-> looked.cache]
        ELSE IF payload.nonce # request.nonce
        THEN [response |-> [status |-> "invalid", device_id |-> request.device_id,
                            timestamp |-> t, error_message |-> "Nonce mismatch"],
              cache |-> looked.cache]
        ELSE LET status == IF payload.ctsProfileMatch /\ payload.basicIntegrity
                           THEN "valid" ELSE "invalid"
             IN  [response |-> [status |-> status, device_id |-> request.device_id,
                                timestamp |-> t, error_message |-> "None"],
                  cache |-> _cache_attestation(looked.cache, request.device_id, "android",
                                status,
                                [cts_profile_match |-> payload.ctsProfileMatch,
                                 basic_integrity |-> payload.basicIntegrity],
                                t)]

\* the Apple credentials are not configured by default; with them the verification
\* is a placeholder that also answers UNSUPPORTED
apple_credentials_configured == FALSE
verify_devicecheck(cache, request, t) ==
    LET looked == _get_cached_attestation(cache, request.device_id, "ios", t)
        cached == looked.entry
    IN  IF cached # None
        THEN [response |-> [status |-> cached.status, device_id |-> cached.device_id,
                            timestamp |-> cached.timestamp, error_message |-> "None"],
              cache |-> looked.cache]
        ELSE IF ~apple_credentials_configured
        THEN [response |-> [status |-> "unsupported", device_id |-> request.device_id,
                            timestamp |-> t,
                            error_message |-> "DeviceCheck not configured"],
              cache |-> looked.cache]
        ELSE [response |-> [status |-> "unsupported", device_id |-> request.device_id,
                            timestamp |-> t,
                            error_message |-> "DeviceCheck verification not implemented"],
              cache |-> looked.cache]

\* a fingerprint is "sha256" (64 hex characters), "short" (another length) or "" (empty)
verify_desktop(cache, request, t) ==
    LET looked == _get_cached_attestation(cache, request.device_id, "desktop", t)
        cached == looked.entry
    IN  IF cached # None
        THEN [response |-> [status |-> cached.status, device_id |-> cached.device_id,
                            timestamp |-> cached.timestamp, error_message |-> "None"],
              cache |-> looked.cache]
        ELSE IF request.fingerprint # "sha256"
        THEN [response |-> [status |-> "invalid", device_id |-> request.device_id,
                            timestamp |-> t,
                            error_message |-> "Invalid fingerprint format"],
              cache |-> looked.cache]
        ELSE LET rate_limit_ok == _check_rate_limit(request.device_id)
                 fingerprint_match == TRUE
                 status == IF rate_limit_ok /\ fingerprint_match THEN "valid" ELSE "invalid"
             IN  [response |-> [status |-> status, device_id |-> request.device_id,
                                timestamp |-> t,
                                error_message |-> IF rate_limit_ok THEN "None"
                                                  ELSE "Rate limit exceeded"],
                  cache |-> _cache_attestation(looked.cache, request.device_id, "desktop",
                                status,
                                [fingerprint_match |-> fingerprint_match,
                                 rate_limit_ok |-> rate_limit_ok],
                                t)]

VerifySafetyNet(request) ==
    LET res == verify_safetynet(_cache, request, clock)
    IN  /\ _cache' = res.cache
        /\ last' = [op |-> "verify_safetynet", platform |-> "android",
                    request |-> request, response |-> res.response]
        /\ UNCHANGED <<clock, signed, attempts>>
        /\ UNCHANGED <<registryVars, coroutineVars>>

VerifyDeviceCheck(request) ==
    LET res == verify_devicecheck(_cache, request, clock)
    IN  /\ _cache' = res.cache
        /\ last' = [op |-> "verify_devicecheck", platform |-> "ios",
                    request |-> request, response |-> res.response]
        /\ UNCHANGED <<clock, signed, attempts>>
        /\ UNCHANGED <<registryVars, coroutineVars>>

\* attempts counts the calls for the device at the present instant, up to MaxAttempts
VerifyDesktop(request) ==
    LET res == verify_desktop(_cache, request, clock)
        n == attempts[request.device_id]
    IN  /\ _cache' = res.cache
        /\ attempts' = [attempts EXCEPT ![request.device_id] =
                            IF n < MaxAttempts THEN n + 1 ELSE n]
        /\ last' = [op |-> "verify_desktop", platform |-> "desktop",
                    request |-> request, response |-> res.response]
        /\ UNCHANGED <<clock, signed>>
        /\ UNCHANGED <<registryVars, coroutineVars>>

\* DeviceAttestationService.clear_cache
ClearCache ==
    /\ _cache' = {}
    /\ last' = [op |-> "clear_cache"]
    /\ UNCHANGED <<clock, signed, attempts>>
    /\ UNCHANGED <<registryVars, coroutineVars>>

\* instants at which the attestation service's clock is observed
AttestationInstants == {0, cache_ttl_seconds, cache_ttl_seconds + 1}
AttestationTick ==
    /\ \E t \in AttestationInstants : t > clock /\ clock' = t
    /\ attempts' = [d \in Devices |-> 0]
    /\ last' = [op |-> "tick"]
    /\ UNCHANGED <<signed, _cache>>
    /\ UNCHANGED <<registryVars, coroutineVars>>

JwsTokens ==
    {JwsMalformed, JwsUndecodable, JwsPayload("nonce-2", TRUE, TRUE),
     JwsPayload("nonce-1", TRUE, TRUE), JwsPayload("nonce-1", TRUE, FALSE)}
SafetyNetRequests ==
    [device_id : Devices, jws_token : JwsTokens, nonce : {"nonce-1"}]
DeviceCheckRequests == [device_id : Devices, device_token : {"token"}]
DesktopRequests == [device_id : {"dev-A"}, fingerprint : {"sha256", "short", ""}]

VerifySafetyNetAny == \E request \in SafetyNetRequests : VerifySafetyNet(request)
VerifyDeviceCheckAny == \E request \in DeviceCheckRequests : VerifyDeviceCheck(request)
VerifyDesktopAny == \E request \in DesktopRequests : VerifyDesktop(request)

NextAttestation ==
    \/ VerifySafetyNetAny
    \/ VerifyDeviceCheckAny
    \/ VerifyDesktopAny
    \/ ClearCache
    \/ AttestationTick

SpecAttestation == InitServices /\ [][NextAttestation]_vars

\* ---------- enrollment requests that carry an attestation token ----------
\* EnrollmentRequest.attestation is an optional token; a SafetyNet token is a JWS
EnrollAttested ==
    /\ \E d \in Devices, csr \in CSRs, token \in JwsTokens :
          enroll_device(d, PlatformOf(d), csr, Some(token))
    /\ UNCHANGED <<serviceVars, coroutineVars>>

NextAttestedEnroll == Enroll \/ EnrollAttested \/ RevokeAny \/ Tick

SpecAttestedEnroll == Init /\ [][NextAttestedEnroll]_vars

\* ---------- certificates for every platform ----------
\* CertificateAuthority.sign_csr called directly, with any platform string
SignCsr(device_id, platform, csr) ==
    IF csr_error(csr) # "none"
    THEN /\ last' = [op |-> "sign_csr", device_id |-> device_id, status |-> "INVALID_CSR"]
         /\ UNCHANGED <<repo, now, minted, issued, latest, revokedLog>>
    ELSE \E serial \in _generate_serial_number(minted) :
            LET res == sign_csr(repo, device_id, platform, serial, now)
            IN  /\ repo' = res.repo
                /\ minted' = minted \cup {serial}
                /\ issued' = issued \cup {res.cert}
                /\ latest' = [latest EXCEPT ![device_id] = {res.cert.serial}]
                /\ last' = [op |-> "sign_csr", device_id |-> device_id, status |-> "ok",
                            serial |-> res.cert.serial]
                /\ UNCHANGED <<now, revokedLog>>

\* platform strings the request pattern does not admit but the CA accepts
OtherPlatforms == {"tv", "Web"}

\* one device that enrolls again and again, each time under any platform
EnrollAs ==
    /\ \E platform \in Platforms : enroll_device("dev-A", platform, "valid", None)
    /\ UNCHANGED <<serviceVars, coroutineVars>>
SignCsrAny ==
    /\ \E platform \in OtherPlatforms, csr \in {"valid", "unparseable"} :
          SignCsr("dev-A", platform, csr)
    /\ UNCHANGED <<serviceVars, coroutineVars>>

NextPlatforms == EnrollAs \/ SignCsrAny \/ Renew

SpecPlatforms == Init /\ [][NextPlatforms]_vars

\* ---------- one process loading the CA credentials ----------
SpecLoad == InitServices /\ [][NextLoad]_vars

\* ---------- revoke_certificate interleaved with enrollments at the store ----------
\* Several workers share one store.  A revocation reads the device's certificate and
\* later writes it back marked revoked; between the two another worker may enroll.
\* LOCAL: get_certificate, then save_certificate of the object read.  CLOUD: the query
\* and CertificateModel.get, then cert_model.save() of the item read.
RevokeRead(device_id) ==
    /\ pending[device_id] = None
    /\ LET cert == get_certificate(repo, device_id)
       IN  IF cert = None
           THEN /\ last' = [op |-> "revoke", device_id |-> device_id, success |-> FALSE]
                /\ UNCHANGED pending
           ELSE /\ pending' = [pending EXCEPT ![device_id] =
                       IF repo.provider = "local" THEN [value |-> cert]
                       ELSE [value |-> CHOOSE m \in repo.table :
                                          m.device_id = device_id
                                          /\ m.serial_number = cert.serial]]
                /\ last' = [op |-> "revoke_read", device_id |-> device_id]
    /\ UNCHANGED <<repo, now, minted, issued, latest, revokedLog>>
    /\ UNCHANGED <<serviceVars, loader>>

RevokeWrite(device_id) ==
    /\ pending[device_id] # None
    /\ LET read == pending[device_id].value
       IN  IF repo.provider = "local"
           THEN /\ repo' = Local_save_certificate(repo, [read EXCEPT !.revoked = TRUE])
                /\ revokedLog' = revokedLog \cup {read.serial}
                /\ last' = [op |-> "revoke", device_id |-> device_id, success |-> TRUE]
           ELSE /\ repo' = [repo EXCEPT !.table = PutItem(@,
                                [read EXCEPT !.revoked = TRUE, !.revoked_at = now,
                                             !.revocation_reason = "Manual revocation"])]
                /\ revokedLog' = revokedLog \cup {read.serial_number}
                /\ last' = [op |-> "revoke", device_id |-> device_id, success |-> FALSE]
    /\ pending' = [pending EXCEPT ![device_id] = None]
    /\ UNCHANGED <<now, minted, issued, latest>>
    /\ UNCHANGED <<serviceVars, loader>>

RevokeReadAny == \E d \in Devices : RevokeRead(d)
RevokeWriteAny == \E d \in Devices : RevokeWrite(d)

NextInterleaved == Enroll \/ RevokeReadAny \/ RevokeWriteAny

SpecInterleaved == Init /\ [][NextInterleaved]_vars

\* ---------- properties ----------
IsWhitelisted(serial) == is_serial_whitelisted(repo, serial, now)
Records == list_all_certificates(repo)

\* C1: after a successful renew_certificate(D, S_old) that returned serial S_new,
\* is_serial_whitelisted(S_new) is true and is_serial_whitelisted(S_old) is false.
C1_RenewalAtomicity ==
    (last.op = "renew" /\ last.status = "ok")
        => (IsWhitelisted(last.serial) /\ ~IsWhitelisted(last.old_serial))

\* C2: after revoke(D) returns for a device that has a certificate, the serial that
\* was D's latest certificate is not whitelisted, and a gateway request presenting
\* that certificate is not passed to the handler.
C2_RevocationFreshness ==
    last.op = "revoke" =>
        \A c \in issued :
            c.serial \in latest[last.device_id] =>
                /\ ~IsWhitelisted(c.serial)
                /\ ~dispatch(repo, [path |-> ProtectedPath,
                                    headers |-> [NoHeaders EXCEPT !.x_client_cert =
                                                    HeaderValue("pem", c.certificate_pem)]],
                             now).handler

\* C3: every certificate enroll_device has returned has a persisted record when the
\* call returns, and its serial is whitelisted for as long as no revocation was
\* written to it and it has not expired.
C3_EnrollReadYourWrites ==
    /\ (last.op = "enroll" /\ last.status = "ok")
            => \E rec \in Records : rec.serial = last.serial
    /\ \A c \in issued :
            (c.serial \notin revokedLog /\ now <= c.expires_at) => IsWhitelisted(c.serial)

\* C4: on a non-exempt path the handler runs only if the presented certificate
\* parses, its serial is whitelisted, a registry record with that serial exists, the
\* clock is within the certificate's lifetime and the record is not revoked; every
\* other request from which a certificate was extracted is answered 403 and the
\* handler does not run.
Passes(cert_pem) ==
    /\ cert_pem # None
    /\ cert_pem.text = "pem"
    /\ IsWhitelisted(cert_pem.cert.serial_number)
    /\ \E rec \in Records : rec.serial = cert_pem.cert.serial_number /\ ~rec.revoked
    /\ cert_pem.cert.not_valid_before <= now
    /\ now <= cert_pem.cert.not_valid_after
C5_WhitelistPredicate ==
    \A serial \in Serials :
        IsWhitelisted(serial) <=>
            \E rec \in Records : /\ rec.serial = serial
                                 /\ ~rec.revoked
                                 /\ rec.issued_at <= now
                                 /\ now <= rec.expires_at

\* C6: on a non-exempt path the answer is 401 exactly when no certificate header
\* carries certificate content; a header whose content cannot be decoded or parsed
\* gets 403.  A header that is absent, empty, or (X-Forwarded-Client-Cert) has no
\* Cert field counts as carrying none.
HeaderMissing(h) == ~h.present \/ h.form \in {"empty", "no_cert_field"}
C6_MissingVersusMalformed ==
    (last.op = "dispatch" /\ ~_is_exempt_path(last.request.path)) =>
        LET headers == last.request.headers
        IN  (last.response.status = "401") <=>
                (/\ HeaderMissing(headers.x_client_cert)
                 /\ HeaderMissing(headers.x_ssl_client_cert)
                 /\ HeaderMissing(headers.x_forwarded_client_cert))

\* C7: a request without a client certificate reaches the handler iff its path is
\* one of /, /health, /health/public, /docs, /redoc, /openapi.json, /device/enroll,
\* /device/ca-certificate, /device/ca-certificate-pin, or starts with /oauth/ or
\* /config/.
DocumentedExempt ==
    {<<"">>, <<"health">>, <<"health", "public">>, <<"docs">>, <<"redoc">>,
     <<"openapi.json">>, <<"device", "enroll">>, <<"device", "ca-certificate">>,
     <<"device", "ca-certificate-pin">>}
C7_ExemptPaths ==
    (last.op = "dispatch" /\ last.request.headers = NoHeaders) =>
        (last.response.handler <=>
            (\/ last.request.path \in DocumentedExempt
             \/ startswith(last.request.path, "oauth")
             \/ startswith(last.request.path, "config")))

\* C8: renew_certificate answers NOT_FOUND when the device has no certificate and
\* SERIAL_MISMATCH when old_serial is not the serial of the device's latest
\* certificate; in both cases nothing is signed, nothing is revoked and the store
\* is unchanged.
C8_RenewRejections ==
    [][last'.op = "renew" =>
        LET d == last'.device_id
            s == last'.old_serial
        IN  /\ (latest[d] = {}) => (last'.status = "NOT_FOUND")
            /\ (latest[d] # {} /\ s \notin latest[d]) => (last'.status = "SERIAL_MISMATCH")
            /\ (last'.status \in {"NOT_FOUND", "SERIAL_MISMATCH"})
                    => UNCHANGED <<repo, minted, issued, latest, revokedLog>>]_vars

\* C9: every certificate ever issued is still in the store under its (device_id,
\* serial), with everything but its revocation fields unchanged.
C9_NeverDeleted ==
    \A c \in issued :
        \E rec \in Records : [rec EXCEPT !.revoked = FALSE] = c

\* C10: no two records of the store share a serial (hence none share a
\* (device_id, serial) pair), across all devices.
StoredItems ==
    IF repo.provider = "local"
    THEN {repo.certs_dir[d] : d \in {x \in Devices : repo.certs_dir[x] # NoFile}}
    ELSE repo.table
SerialOf(item) == IF repo.provider = "local" THEN item.serial ELSE item.serial_number
C11_GetLatest ==
    \A d \in Devices :
        latest[d] # {} =>
            /\ get_certificate(repo, d) # None
            /\ get_certificate(repo, d).serial \in latest[d]

\* C12: the revocation of a device reports success exactly when the device had a
\* record, which is then marked revoked; when the device has none it reports
\* failure and the store is unchanged.
C12_RevokeReturn ==
    [][last'.op = "revoke" =>
        LET d == last'.device_id
            had == get_certificate(repo, d) # None
        IN  /\ last'.success <=> had
            /\ had => get_certificate(repo', d).revoked
            /\ ~had => UNCHANGED repo]_vars

\* what the broker signed into the state it issued last, and whether a presented
\* state is that one and still within the default max_age
IssuedPayload == json_loads(signed.payload)
IsIssuedAndFresh(state) ==
    /\ signed # None
    /\ state = signed
    /\ clock - signed.timestamp <= default_max_age

\* C13: oauth_callback forwards the code (302 to the state's redirect_uri with code,
\* state and provider) only when the state verifies and its provider is the
\* callback's provider; an unverifiable state is redirected to the default
\* app-scheme URL with error=invalid_state, a provider mismatch with
\* error=provider_mismatch, both without the code.
C13_CallbackForwardsCode ==
    last.op = "callback" =>
        LET response == last.response
            forwards == "code" \in DOMAIN response.query
        IN  /\ forwards <=> (/\ IsIssuedAndFresh(last.state)
                             /\ IssuedPayload.provider = last.provider)
            /\ forwards => /\ response.status_code = 302
                           /\ response.url = IssuedPayload.redirect_uri
                           /\ response.query = [code |-> last.code, state |-> last.state,
                                                provider |-> last.provider]
            /\ ~IsIssuedAndFresh(last.state)
                    => /\ response.url = "apuntador://oauth-callback"
                       /\ response.query = [error |-> "invalid_state",
                                            provider |-> last.provider]
            /\ (IsIssuedAndFresh(last.state) /\ IssuedPayload.provider # last.provider)
                    => response.query = [error |-> "provider_mismatch",
                                         provider |-> last.provider]
C13_Witness ==
    /\ last.op = "callback"
    /\ "code" \in DOMAIN last.response.query
    /\ clock > 0

\* C14: when a signed state is supplied to the token exchange, the provider's token
\* endpoint is called only if the state verifies and its code_verifier is the
\* supplied one, the redirect_uri sent upstream is the one in the state, and
\* otherwise the exchange fails without an upstream call.
C14_ExchangeBoundToState ==
    (last.op = "exchange" /\ last.state # None) =>
        LET upstream == last.response.upstream
            bound == /\ IsIssuedAndFresh(last.state)
                     /\ IssuedPayload.code_verifier = last.code_verifier
        IN  /\ upstream # None => bound
            /\ upstream # None => upstream.redirect_uri = IssuedPayload.redirect_uri
            /\ ~bound => /\ upstream = None
                         /\ last.response.error \in {"Invalid state", "Code verifier mismatch"}

\* C15: verify(sign(payload), max_age) returns payload for a token not older than
\* max_age and none for an older one; verify of a token other than a signed one
\* (tampered payload, timestamp or signature) returns none.
StatePayloads ==
    [state : {"client-state"}, code_verifier : CodeVerifiers, provider : OAuthProviders,
     redirect_uri : RedirectUris]
C15_SignedStateRoundTrip ==
    /\ \A data \in StatePayloads, signed_at \in OAuthInstants, max_age \in MaxAges :
            signed_at <= clock =>
                verify_signed_data(sign_data(data, signed_at), max_age, clock)
                    = IF clock - signed_at <= max_age THEN data ELSE None
    /\ (last.op = "verify" /\ last.token # signed) => last.result = None
    /\ (last.op = "verify" /\ last.token = signed) =>
            last.result = IF clock - signed.timestamp <= last.max_age
                          THEN IssuedPayload ELSE None
C15_Witness ==
    /\ last.op = "verify"
    /\ last.token = signed
    /\ clock - signed.timestamp = last.max_age
    /\ last.result = IssuedPayload

\* C16: a verify_safetynet request whose JWS payload carries a nonce other than the
\* request's nonce is answered INVALID, never VALID, and leaves the cache as it was,
\* whatever the cache held before the call.
NonceDiffers(request) ==
    request.jws_token.form = "jws" /\ request.jws_token.nonce # request.nonce
C16_NonceBinding ==
    [][\A request \in SafetyNetRequests :
          (VerifySafetyNet(request) /\ NonceDiffers(request))
              => (last'.response.status = "invalid" /\ _cache' = _cache)]_vars

\* C17: every verification (SafetyNet, DeviceCheck or desktop) that answers VALID,
\* INVALID or UNSUPPORTED leaves an entry in the cache under (device_id, platform)
\* whose expiry is its insertion time plus the TTL, the insertion time being the time
\* of the call unless the call was answered from the cache; a verification that
\* answers FAILED writes no entry.
VerifyOps == {"verify_safetynet", "verify_devicecheck", "verify_desktop"}
C17_NonFailedIsCached ==
    [][last'.op \in VerifyOps =>
          LET device_id == last'.request.device_id
              hit == _get_cached_attestation(_cache, device_id, last'.platform, clock).entry
              entry == cache_get(_cache', cache_key(device_id, last'.platform))
          IN  IF last'.response.status = "failed"
              THEN _cache' \subseteq _cache
              ELSE /\ entry # None
                   /\ entry.expires_at = entry.timestamp + cache_ttl_seconds
                   /\ (hit = None => entry.timestamp = clock)]_vars

rate_limit_per_hour == 5
C20_DesktopRateLimit ==
    [][\A request \in DesktopRequests :
          (/\ VerifyDesktop(request)
           /\ attempts[request.device_id] >= rate_limit_per_hour
           /\ _get_cached_attestation(_cache, request.device_id, "desktop", clock).entry = None)
              => last'.response.status # "valid"]_vars

\* C19: an enrollment of an Android device that carried an attestation token and ended
\* with a certificate signed and stored carried a token that SafetyNet verification
\* answers VALID (the nonce expected being the token's own when it has one).
AttestationVerdict(device_id, token, t) ==
    verify_safetynet({}, [device_id |-> device_id, jws_token |-> token,
                          nonce |-> IF token.form = "jws" THEN token.nonce ELSE "nonce-1"],
                     t).response.status
C19_AttestationBeforeSigning ==
    (/\ last.op = "enroll"
     /\ last.status = "ok"
     /\ last.attestation # None
     /\ PlatformOf(last.device_id) = "android")
        => AttestationVerdict(last.device_id, last.attestation.value, now) = "valid"

\* C21: every certificate issued by an enrollment, a renewal or a direct sign_csr call
\* has a lifetime expires_at - issued_at equal to the default of its platform: 30 days
\* for android and ios, 7 for desktop, 1 for web (names compared without regard to
\* case), 7 for any other platform; so every lifetime is 1, 7 or 30 days.
PlatformDefault(platform) ==
    IF lower(platform) \in {"android", "ios"} THEN 30
    ELSE IF lower(platform) = "desktop" THEN 7
    ELSE IF lower(platform) = "web" THEN 1
    ELSE 7
InvalidCSRs == {csr \in CSRs : csr # "valid"}
C22_InvalidCsrLeavesNoTrace ==
    [][\A d \in Devices, csr \in InvalidCSRs :
          /\ (last'.op = "enroll" /\ enroll_device(d, PlatformOf(d), csr, None))
                => (last'.status = "INVALID_CSR" /\ UNCHANGED <<repo, minted, issued>>)
          /\ \A s \in Serials :
                (/\ last'.op = "renew"
                 /\ get_certificate(repo, d) # None
                 /\ get_certificate(repo, d).serial = s
                 /\ renew_certificate(d, s, csr))
                    => (last'.status = "INVALID_CSR" /\ UNCHANGED <<repo, minted, issued>>)]_vars
\* an enrollment has just been refused for its CSR in a registry that holds certificates
C22_Witness ==
    /\ last.op = "enroll"
    /\ last.status = "INVALID_CSR"
    /\ issued # {}
    /\ minted = {cert.serial : cert \in issued}

\* C23: a successful renewal issues a certificate whose platform and lifetime are those
\* of the certificate being renewed (the one with the request's old_serial), and its
\* platform is that of the device's latest stored certificate, the one most recently
\* issued to it.
IssuedWithSerial(certs, serial) == CHOOSE cert \in certs : cert.serial = serial
C23_RenewKeepsPlatform ==
    [][(last'.op = "renew" /\ last'.status = "ok") =>
          LET new == IssuedWithSerial(issued', last'.serial)
              old == IssuedWithSerial(issued, last'.old_serial)
          IN  /\ new.platform = old.platform
              /\ new.expires_at - new.issued_at = old.expires_at - old.issued_at
              /\ \A s \in latest[last'.device_id] :
                    new.platform = IssuedWithSerial(issued, s).platform]_vars

\* C24: a successful renewal leaves the new certificate's record in the store and its
\* revoke step marks the record of the old certificate (the request's old_serial) and
\* no other; a renewal refused for its CSR revokes nothing and leaves the old serial as
\* whitelisted as it was.
C24_RenewRevokesOldAfterPersist ==
    [][last'.op = "renew" =>
          /\ last'.status = "ok" =>
                /\ \E cert \in list_all_certificates(repo') : cert.serial = last'.serial
                /\ revokedLog' = revokedLog \cup {last'.old_serial}
                /\ \A cert \in list_all_certificates(repo') :
                      cert.serial = last'.serial => ~cert.revoked
          /\ last'.status = "INVALID_CSR" =>
                /\ revokedLog' = revokedLog
                /\ is_serial_whitelisted(repo', last'.old_serial, now')
                       = is_serial_whitelisted(repo, last'.old_serial, now)]_vars

\* C25: in one process the CA private key and the CA certificate are each read from the
\* secret store at most once, whatever sign and verify calls run, one after the other or
\* interleaved at the awaits of the load.
C25_CredentialsReadOnce == loader.key_reads <= 1 /\ loader.cert_reads <= 1

\* C27: when a revocation of device D completes, whatever enrollments of D ran between
\* its read and its write, the certificate most recently issued to D has its record in
\* the store, with its own serial and certificate, and the certificate the revocation
\* read is stored marked revoked.
SerialRead(read) == IF repo.provider = "local" THEN read.serial ELSE read.serial_number
C27_NoLostUpdate ==
    [][\A d \in Devices :
          (pending[d] # None /\ pending'[d] = None) =>
              /\ \A c \in issued :
                    c.serial \in latest[d] =>
                        \E rec \in list_all_certificates(repo') :
                            /\ rec.serial = c.serial
                            /\ rec.device_id = d
                            /\ rec.certificate_pem = c.certificate_pem
              /\ \E rec \in list_all_certificates(repo') :
                    rec.serial = SerialRead(pending[d].value) /\ rec.revoked]_vars

\* C26: a serial whose record a revocation has marked revoked is not whitelisted in any
\* later state, whatever enrollments and renewals of the same device follow.
C26_RevocationPermanent ==
    \A serial \in revokedLog : ~IsWhitelisted(serial)

\* C29: a successful renewal renews a certificate that was whitelisted when the renewal
\* started: the serial old_serial was neither revoked nor expired.
C29_RenewOnlyWhitelisted ==
    [][(last'.op = "renew" /\ last'.status = "ok")
          => is_serial_whitelisted(repo, last'.old_serial, now)]_vars

\* C28: of two renew_certificate calls for the same device with the same old_serial,
\* the second following the first with no other request in between, at most one
\* returns a new certificate.
C28_RenewAtMostOnce ==
    [][~(/\ last.op = "renew" /\ last.status = "ok"
         /\ last'.op = "renew" /\ last'.status = "ok"
         /\ last'.device_id = last.device_id
         /\ last'.old_serial = last.old_serial)]_vars

\* C30: a token exchange called for one provider with the signed state that authorize
\* issued for another provider is refused, and no provider's token endpoint is called.
C30_ExchangeProviderBound ==
    (/\ last.op = "exchange"
     /\ last.state # None
     /\ IsIssuedAndFresh(last.state)
     /\ IssuedPayload.provider # last.provider)
        => (last.response.upstream = None /\ last.response.error # "none")

====
